---- MODULE Spec2Model ----
(***************************************************************************)
(* The request governor (class RateLimiter) of linear-mcp-server and the   *)
(* way LinearMCPClient uses it: a FIFO queue of pending calls, the single  *)
(* drain loop with its 90% pacing rule, the grouped batch helper and the   *)
(* request history.                                                        *)
(*                                                                         *)
(* JavaScript runs one callback at a time, so every action below is one    *)
(* callback or promise reaction run to completion: the synchronous code of *)
(* the handler up to the next point where it awaits.  When the awaited     *)
(* operation settles, the closure ends in one reaction, processQueue goes  *)
(* on in a later one, and the callers of enqueue and batch (getIssue, the  *)
(* Promise.all of batch) go on in reactions after that; what other         *)
(* callbacks do comes in between, and so may time: every reaction reads    *)
(* the clock afresh.  The clock (Date.now(), whole milliseconds) is the    *)
(* variable now.  Numbers that are not whole (minDelayMs, the timer's due  *)
(* time, averages) are kept exactly, as fractions.                         *)
(***************************************************************************)
EXTENDS Integers, Sequences, FiniteSets, TLC

(* ---------------------------------------------------------------------- *)
(* Program constants                                                      *)
(* ---------------------------------------------------------------------- *)

\* The hourly quota: requestsPerHour = 1400.
requestsPerHour == 1400

\* One hour in milliseconds (the literal 3600000 of the source).
HourMs == 3600000

\* The one value of a set of one value: {f(v) : v \in {x}} works x out once,
\* before f is entered.
only(S) == CHOOSE r \in S : TRUE

\* The greatest common divisor of two naturals.
RECURSIVE gcd(_, _)
gcd(a, b) == IF b = 0 THEN a ELSE gcd(b, a % b)

\* a / b for whole numbers a >= 0 and b > 0.  The value of the division is
\* kept exactly, as the fraction in lowest terms <<numerator, denominator>>;
\* the number 0 is <<0, 1>>.
quotient(a, b) == <<a \div gcd(a, b), b \div gcd(a, b)>>

\* minDelayMs = 3600000 / requestsPerHour: 18000/7 ms (2571.428...).
minDelayMs == quotient(HourMs, requestsPerHour)

\* Arithmetic of a whole number t with a fraction q: t < q, q - t (for
\* t < q), t + q, and the whole numbers next below and next above q.
lessThan(t, q) == t * q[2] < q[1]
minus(q, t) == quotient(q[1] - t * q[2], q[2])
plus(t, q) == quotient(t * q[2] + q[1], q[2])
floor(q) == q[1] \div q[2]
ceiling(q) == (q[1] + q[2] - 1) \div q[2]

\* The runtime's timer takes the whole milliseconds of the delay and counts
\* them on the event loop's own clock, which is not in step with Date.now():
\* the callback of setTimeout may run while Date.now() still shows up to two
\* milliseconds less than the first whole millisecond the timer was set for.
TimerEarlyMs == 2

\* Date.now() when the governor is constructed: any instant more than one
\* hour after the epoch (lastRequestTime starts at 0, the epoch).
ConstructionTime == HourMs + HourMs

\* The smallest number of recorded calls the loop paces at:
\* requestsInLastHour >= requestsPerHour * 0.9.
PacedFrom == (requestsPerHour * 9 + 9) \div 10

\* The calls a governor has behind it when the run that is looked at
\* begins: none (it was just constructed), two short of the 90% threshold,
\* or two short of the quota.  These calls were submitted together when
\* the governor was constructed and ran one after the other, each
\* returning at once and every timer firing on time: the first PacedFrom
\* were started right away, each later one at the first whole millisecond
\* minDelayMs after the one before it.
WarmCalls == {0, PacedFrom - 2, requestsPerHour - 2}

\* When the i-th of these calls was started (and returned).
WarmStart(i) ==
    ConstructionTime
        + ceiling(minDelayMs) * (IF i > PacedFrom THEN i - PacedFrom ELSE 0)

\* How many of w such calls were started in the hour before t.
warmStarts(w, t) ==
    IF ConstructionTime > t - HourMs
    THEN w
    ELSE only({Cardinality({i \in 1..w : WarmStart(i) > oneHourAgo}) :
                   oneHourAgo \in {t - HourMs}})

(* ---------------------------------------------------------------------- *)
(* Bounds of the model                                                    *)
(* ---------------------------------------------------------------------- *)

\* Operations submitted in one run of Spec (after the calls the governor
\* has behind it), and operations that may wait in the queue when a caller
\* submits one more.
MaxOps == 3
MaxQueue == 2
\* Operations submitted in one run of BatchSpec (batch items and nested
\* calls included).
MaxBatchOps == 7
\* Operations submitted in one run of PacedBatchSpec.
MaxPacedOps == 4
\* Operations that may fail in one run.
MaxFailures == 1
\* Clock advances (Tick) in one run; a timer that fires moves the clock to
\* its due time besides.
MaxTicks == 1
\* Calls of batch in one run, items of a batch, and its group widths.
MaxBatches == 1
MaxItems == 5
MaxGroup == 3
\* Calls a fan-out operation submits to the same governor.
MaxNested == 1
\* Operations submitted in one run of MetricsSpec or ClientSpec, clock
\* advances (Elapse) and calls of getMetrics in one run, and calls of the
\* client's direct methods in one run.
MaxClientOps == 2
MaxElapse == 2
MaxReads == 2
MaxDirect == 1
\* Per-item operations of a batch that may fail in one run of BatchFailSpec.
MaxItemFailures == 2

VARIABLES
    now,                \* Date.now()
    warm,               \* the calls the governor had behind it at the start
    queue,              \* RateLimiter.queue: ids of the queued closures
    processing,         \* RateLimiter.processing
    lastRequestTime,    \* RateLimiter.lastRequestTime
    requestTimes,       \* RateLimiter.requestTimes
    requestTimestamps,  \* RateLimiter.requestTimestamps
    pc,                 \* where processQueue is suspended: "idle" (not
                        \* running), "timer" (line 63), "fn" (line 69, the
                        \* operation running) or "resume" (line 69, the
                        \* closure ended, the loop not yet gone on)
    timerAt,            \* when the setTimeout of line 63 is due (a fraction)
    current,            \* the closure awaited at line 69 (0: none)
    ops,                \* every closure ever pushed, by id (submission order)
    batches,            \* every call of batch
    startLog,           \* observation: every closure started, in order, with
                        \* the time and the pacing decision it was started on
    decision,           \* observation: the last pacing decision of the loop
    failures,           \* observation: operations that failed so far
    ticks,              \* observation: clock advances so far
    loops,              \* observation: invocations of processQueue that
                        \* entered the try block and have not left it
    reads,              \* observation: what getMetrics returned, call by call
    direct              \* observation: remote calls the client started
                        \* itself, not from an operation of the governor

vars == <<now, warm, queue, processing, lastRequestTime, requestTimes,
          requestTimestamps, pc, timerAt, current, ops, batches, startLog,
          decision, failures, ticks, loops, reads, direct>>

\* The governor's state as one record, so that the synchronous code of a
\* turn can be written as functions from state to state.
Cur ==
    [now |-> now, warm |-> warm, queue |-> queue, processing |-> processing,
     lastRequestTime |-> lastRequestTime, requestTimes |-> requestTimes,
     requestTimestamps |-> requestTimestamps, pc |-> pc, timerAt |-> timerAt,
     current |-> current, ops |-> ops, batches |-> batches,
     startLog |-> startLog, decision |-> decision, loops |-> loops,
     direct |-> direct]

Becomes(S) ==
    /\ now' = S.now
    /\ warm' = S.warm
    /\ queue' = S.queue
    /\ processing' = S.processing
    /\ lastRequestTime' = S.lastRequestTime
    /\ requestTimes' = S.requestTimes
    /\ requestTimestamps' = S.requestTimestamps
    /\ pc' = S.pc
    /\ timerAt' = S.timerAt
    /\ current' = S.current
    /\ ops' = S.ops
    /\ batches' = S.batches
    /\ startLog' = S.startLog
    /\ decision' = S.decision
    /\ loops' = S.loops
    /\ direct' = S.direct

Pending == <<"pending">>

\* A pacing decision: the closure at the head of the queue, the clock, the
\* values the loop computed (requestsInLastHour, timeSinceLastRequest), the
\* number of closures really started in the trailing hour, and the outcome.
NoDecision ==
    [head |-> 0, at |-> 0, n |-> 0, since |-> 0, starts |-> 0, waited |-> FALSE]

(* ---------------------------------------------------------------------- *)
(* Pure helpers                                                           *)
(* ---------------------------------------------------------------------- *)

Min(a, b) == IF a < b THEN a ELSE b
Max(a, b) == IF a > b THEN a ELSE b

\* Array.prototype.slice(i, j) on a 0-based array, 0 <= i.
slice(s, i, j) == SubSeq(s, i + 1, Min(j, Len(s)))

\* Array.prototype.slice(-n) for n >= 0: the last n elements, and the whole
\* array when n = 0 (slice(-0) is slice(0)).
sliceLast(s, n) ==
    IF n = 0 \/ n >= Len(s) THEN s ELSE SubSeq(s, Len(s) - n + 1, Len(s))

\* requestTimestamps.filter((t) => t > now - 3600000)
recent(ts, t) ==
    only({SelectSeq(ts, LAMBDA x : x > oneHourAgo) :
              oneHourAgo \in {t - HourMs}})

\* The closures started in the hour before t.
startsInLastHour(log, t) ==
    only({Len(SelectSeq(log, LAMBDA e : e.at > oneHourAgo)) :
              oneHourAgo \in {t - HourMs}})

\* Array.prototype.flat() of an array of arrays.
RECURSIVE flat(_)
flat(ss) == IF ss = <<>> THEN <<>> ELSE Head(ss) \o flat(Tail(ss))

\* The partitioning with items.slice(i, batchSize) for the chunk.
RECURSIVE chunksFromFixedEnd(_, _, _)
chunksFromFixedEnd(items, i, batchSize) ==
    IF i < Len(items)
    THEN <<slice(items, i, batchSize)>>
             \o chunksFromFixedEnd(items, i + batchSize, batchSize)
    ELSE <<>>

\* The partitioning with the loop running while i + batchSize <= length: a
\* last chunk shorter than batchSize is left out.
RECURSIVE chunksFromWhole(_, _, _)
chunksFromWhole(items, i, batchSize) ==
    IF i + batchSize <= Len(items)
    THEN <<slice(items, i, i + batchSize)>>
             \o chunksFromWhole(items, i + batchSize, batchSize)
    ELSE <<>>

\* The partitioning of batch: items.slice(i, i + batchSize) for i = 0,
\* batchSize, 2*batchSize, ... while i < items.length.
RECURSIVE chunksFrom(_, _, _)
chunksFrom(items, i, batchSize) ==
    IF i < Len(items)
    THEN <<slice(items, i, i + batchSize)>>
             \o chunksFrom(items, i + batchSize, batchSize)
    ELSE <<>>

\* requestTimes.reduce((a, b) => a + b, 0).  The additions are grouped by
\* halves (the sum of whole numbers does not depend on the grouping), so that
\* a history of more than a thousand entries is summed in few nested steps.
RECURSIVE sumOf(_, _, _)
sumOf(s, i, j) ==
    IF i > j THEN 0
    ELSE IF i = j THEN s[i]
    ELSE sumOf(s, i, (i + j) \div 2) + sumOf(s, (i + j) \div 2 + 1, j)

sum(s) == sumOf(s, 1, Len(s))

\* What the operation of closure id returns or throws when it is left to
\* itself: fn(item) for a batch item, a value of its own otherwise.
fnValue(id, o) == IF o.item = 0 THEN <<"value", id>> ELSE <<"f", o.item>>
fnError(id, o) == <<"error", id>>

\* client.issue(id) returning no issue (null or undefined).
Null == <<"null">>

(* ---------------------------------------------------------------------- *)
(* RateLimiter                                                            *)
(* ---------------------------------------------------------------------- *)

\* trackRequest(startTime, endTime)
trackRequest(S, startTime, endTime) ==
    LET duration == endTime - startTime
        times == Append(S.requestTimes, duration)
        stamps == Append(S.requestTimestamps, startTime)
        kept == recent(stamps, S.now)
    IN  [S EXCEPT !.requestTimestamps = kept,
                  !.requestTimes = sliceLast(times, Len(kept))]

\* The pacing condition with || in place of &&.
mustWaitEither(n, timeSinceLastRequest) ==
    \/ n * 10 >= requestsPerHour * 9
    \/ lessThan(timeSinceLastRequest, minDelayMs)

\* The condition of lines 58-61.
mustWait(n, timeSinceLastRequest) ==
    /\ n * 10 >= requestsPerHour * 9
    /\ lessThan(timeSinceLastRequest, minDelayMs)

\* queue.pop() in place of queue.shift().
shiftLast(q) == [fn |-> q[Len(q)], rest |-> SubSeq(q, 1, Len(q) - 1)]

\* queue.shift(): the closure taken and the queue left.
shift(q) == [fn |-> Head(q), rest |-> Tail(q)]

RECURSIVE enqueue(_, _, _, _, _, _)
RECURSIVE processQueue(_)
RECURSIVE drain(_)
RECURSIVE dispatch(_)
RECURSIVE invoke(_, _)
RECURSIVE nested(_, _, _)

\* enqueue pruning the timestamp log to the trailing hour on its way.
enqueuePruning(S, kind, fanout, parent, batch, item) ==
    LET o == [startTime |-> S.now, kind |-> kind, fanout |-> fanout,
              parent |-> parent, batch |-> batch, item |-> item,
              outcome |-> Pending, promise |-> Pending, settles |-> 0,
              endTime |-> 0, continued |-> FALSE]
        id == Len(S.ops) + 1
    IN  processQueue([S EXCEPT !.ops = Append(@, o),
                               !.queue = Append(@, id),
                               !.requestTimestamps = recent(@, S.now)])

\* enqueue with unshift in place of push: the closure goes to the head.
enqueueUnshift(S, kind, fanout, parent, batch, item) ==
    LET o == [startTime |-> S.now, kind |-> kind, fanout |-> fanout,
              parent |-> parent, batch |-> batch, item |-> item,
              outcome |-> Pending, promise |-> Pending, settles |-> 0,
              endTime |-> 0, continued |-> FALSE]
        id == Len(S.ops) + 1
    IN  processQueue([S EXCEPT !.ops = Append(@, o),
                               !.queue = <<id>> \o @])

\* enqueue calling processQueue before it has pushed the closure.
enqueueKickFirst(S, kind, fanout, parent, batch, item) ==
    LET o == [startTime |-> S.now, kind |-> kind, fanout |-> fanout,
              parent |-> parent, batch |-> batch, item |-> item,
              outcome |-> Pending, promise |-> Pending, settles |-> 0,
              endTime |-> 0, continued |-> FALSE]
        id == Len(S.ops) + 1
    IN  [processQueue(S) EXCEPT !.ops = Append(@, o),
                                !.queue = Append(@, id)]

\* enqueue(fn): capture startTime, push the closure, call processQueue.
\* kind "leaf": fn is one remote call; kind "getIssue": the same, submitted
\* by getIssue, which goes on when it returns; kind "outer": fn submits fanout
\* further calls to this governor and awaits them all, as the per-item
\* operations of searchIssues, getUserIssues and getTeamIssues do.
\* outcome, settles and endTime observe what fn did, how often the promise
\* was settled and when fn settled; continued, whether the caller that
\* awaits the promise has gone on.
enqueue(S, kind, fanout, parent, batch, item) ==
    LET o == [startTime |-> S.now, kind |-> kind, fanout |-> fanout,
              parent |-> parent, batch |-> batch, item |-> item,
              outcome |-> Pending, promise |-> Pending, settles |-> 0,
              endTime |-> 0, continued |-> FALSE]
        id == Len(S.ops) + 1
    IN  processQueue([S EXCEPT !.ops = Append(@, o),
                               !.queue = Append(@, id)])

\* processQueue without the test of the processing flag being reset: a loop
\* is only started the first time.
processQueueOnce(S) ==
    IF S.processing \/ Len(S.queue) = 0 \/ Len(S.startLog) > 0
    THEN S
    ELSE drain([S EXCEPT !.processing = TRUE, !.loops = @ + 1])

\* processQueue without the test of the processing flag.
processQueueUnguarded(S) ==
    IF Len(S.queue) = 0
    THEN S
    ELSE drain([S EXCEPT !.processing = TRUE, !.loops = @ + 1])

\* processQueue, lines 47-50.
processQueue(S) ==
    IF S.processing \/ Len(S.queue) = 0
    THEN S
    ELSE drain([S EXCEPT !.processing = TRUE, !.loops = @ + 1])

\* The while loop of processQueue from its head (line 51) to the next
\* point where it suspends or returns.
drain(S) ==
    IF Len(S.queue) = 0
    THEN [S EXCEPT !.processing = FALSE, !.pc = "idle", !.current = 0,
                   !.loops = @ - 1]
    ELSE LET timeSinceLastRequest == S.now - S.lastRequestTime
             requestsInLastHour == Len(recent(S.requestTimestamps, S.now))
             wait == mustWait(requestsInLastHour, timeSinceLastRequest)
             D == [head |-> Head(S.queue), at |-> S.now,
                   n |-> requestsInLastHour, since |-> timeSinceLastRequest,
                   starts |-> warmStarts(S.warm, S.now)
                                  + startsInLastHour(S.startLog, S.now),
                   waited |-> wait]
             waitTime == minus(minDelayMs, timeSinceLastRequest)
         IN  IF wait
             THEN [S EXCEPT !.pc = "timer", !.current = 0,
                            !.timerAt = plus(S.now, waitTime),
                            !.decision = D]
             ELSE only({dispatch(T) : T \in {[S EXCEPT !.decision = D]}})

\* Lines 66-70 with fn() called and not awaited: the loop goes on at once.
dispatchNoAwait(S) ==
    IF Len(S.queue) = 0
    THEN drain(S)
    ELSE LET sh == shift(S.queue)
         IN  drain(invoke([S EXCEPT !.queue = sh.rest,
                                    !.lastRequestTime = S.now,
                                    !.current = sh.fn], sh.fn))

\* Lines 66-70: take the head, stamp lastRequestTime, call it and await it.
dispatch(S) ==
    IF Len(S.queue) = 0
    THEN drain(S)
    ELSE LET sh == shift(S.queue)
         IN  invoke([S EXCEPT !.queue = sh.rest,
                              !.lastRequestTime = S.now,
                              !.pc = "fn",
                              !.current = sh.fn], sh.fn)

\* The closure of lines 21-42 up to its await of fn(): fn starts.  An outer
\* operation submits its nested calls in the same callback.
invoke(S, id) ==
    LET S1 == [S EXCEPT !.startLog =
                   Append(@, [id |-> id, at |-> S.now, decided |-> S.decision])]
    IN  IF S.ops[id].kind = "outer"
        THEN nested(S1, id, S.ops[id].fanout)
        ELSE S1

\* The n calls of this.rateLimiter.enqueue made by an outer operation.
nested(S, id, n) ==
    IF n = 0 THEN S
    ELSE nested(enqueue(S, "leaf", 0, id, 0, 0), id, n - 1)

\* resolve(result) and reject(error) of the promise enqueue returned.  A
\* promise keeps its first settlement; settles counts the calls.
resolve(S, id, result) ==
    [S EXCEPT !.ops[id].promise = IF @ = Pending THEN <<"resolved", result>> ELSE @,
              !.ops[id].settles = @ + 1]

reject(S, id, error) ==
    [S EXCEPT !.ops[id].promise = IF @ = Pending THEN <<"rejected", error>> ELSE @,
              !.ops[id].settles = @ + 1]

\* closure with a catch block that only logs: the error is not passed on.
closureSwallow(S, id, res) ==
    IF res[1] = "resolved"
    THEN resolve(trackRequest(S, S.ops[id].startTime, S.now), id, res[2])
    ELSE S

\* The closure of lines 21-42 after its await of fn(): res is what fn did,
\* <<"resolved", value>> or <<"rejected", error>>.
closure(S, id, res) ==
    IF res[1] = "resolved"
    THEN resolve(trackRequest(S, S.ops[id].startTime, S.now), id, res[2])
    ELSE reject(S, id, res[2])

\* Promise.all over promises in the states ps: rejected as soon as one is
\* (the closures run one at a time in queue order, so the rejected promise
\* of lowest index is the first in time), resolved with the values by
\* position when all are.
promiseAll(ps) ==
    LET bad == {i \in DOMAIN ps : ps[i][1] = "rejected"}
    IN  IF bad # {}
        THEN ps[CHOOSE i \in bad : \A j \in bad : i <= j]
        ELSE IF \A i \in DOMAIN ps : ps[i][1] = "resolved"
             THEN <<"resolved", [i \in DOMAIN ps |-> ps[i][2]]>>
             ELSE Pending

\* The closure that was started last: the one processQueue awaits at line
\* 69, or awaited when pc is "resume".
awaited(S) == S.startLog[Len(S.startLog)].id

\* The promise of closure id as the caller of enqueue has it.  enqueue is
\* an async function that returns the promise it made at line 20: what the
\* caller holds follows that promise one reaction after resolve or reject
\* (lines 34 and 40), the reaction that comes right before the one in which
\* processQueue goes on.
callerPromise(S, id) ==
    IF S.pc = "resume" /\ awaited(S) = id THEN Pending ELSE S.ops[id].promise

\* What batch has to return, lines 92-93: Promise.all(batches), then
\* results.flat().  groups holds, chunk by chunk, the closures enqueued for
\* the items; Pending while Promise.all has not settled.
batchPromise(S, groups) ==
    LET chunk(g) == promiseAll([j \in DOMAIN groups[g] |-> callerPromise(S, groups[g][j])])
        all == promiseAll([g \in DOMAIN groups |-> chunk(g)])
    IN  IF all[1] = "resolved" THEN <<"resolved", flat(all[2])>> ELSE all

\* Call b of batch goes on after its await (line 92), Promise.all having
\* settled: it returns results.flat() or throws the error, which settles
\* the promise the call returned.
batchReturns(S, b) ==
    [S EXCEPT !.batches[b].promise =
        IF @ = Pending THEN batchPromise(S, S.batches[b].groups) ELSE @]

\* What the operation of closure id can do once started: a remote call
\* returns or throws (client.issue may also return no issue); an outer
\* operation awaits Promise.all of its nested
\* calls and then returns, or throws what the first failed one threw.
fnOutcomes(S, id) ==
    LET o == S.ops[id]
        kids == SelectSeq([k \in DOMAIN S.ops |-> k], LAMBDA k : S.ops[k].parent = id)
        all == promiseAll([j \in DOMAIN kids |-> callerPromise(S, kids[j])])
    IN  IF o.kind = "getIssue"
        THEN {<<"resolved", fnValue(id, o)>>, <<"resolved", Null>>,
              <<"rejected", fnError(id, o)>>}
        ELSE IF o.kind # "outer"
        THEN {<<"resolved", fnValue(id, o)>>, <<"rejected", fnError(id, o)>>}
        ELSE IF all = Pending THEN {}
        ELSE IF all[1] = "rejected" THEN {all}
        ELSE {<<"resolved", fnValue(id, o)>>}

\* getIssue after its await of enqueue (part_002, lines 96-98): when the
\* promise was rejected it throws the error, without a result it throws
\* "Issue not found", and it makes no further call; with an issue in hand
\* it calls getIssueDetails, which reads issue.state, issue.assignee and
\* issue.team from the remote service right there, not through enqueue.
getIssueContinues(S, id) ==
    LET res == callerPromise(S, id)
        S1 == [S EXCEPT !.ops[id].continued = TRUE]
    IN  IF res[1] = "resolved" /\ res[2] # Null
        THEN [S1 EXCEPT !.direct = @ \cup {"getIssueDetails"}]
        ELSE S1

\* The reaction in which the awaited operation settles: the closure ends
\* (lines 27-41) and returns; processQueue, which awaits it at line 69, is
\* left to go on in a later reaction.
settle(S, res) ==
    LET id == S.current
        S1 == [S EXCEPT !.ops[id].outcome = res, !.ops[id].endTime = S.now]
    IN  [closure(S1, id, res) EXCEPT !.pc = "resume", !.current = 0]

\* resume with a loop that ends, its flag set, when the closure it awaited
\* has failed.
resumeHalting(S) ==
    IF S.ops[awaited(S)].outcome[1] = "rejected"
    THEN [S EXCEPT !.pc = "idle"]
    ELSE drain(S)

\* resume with a loop that puts a failed closure back at the tail of the
\* queue to try it again.
resumeRetry(S) ==
    drain(IF S.ops[awaited(S)].outcome[1] = "rejected"
          THEN [S EXCEPT !.queue = Append(@, awaited(S))]
          ELSE S)

\* resume with a loop that, when a per-item operation of a batch has
\* failed, drops the operations of that batch still in the queue.
resumeCancelling(S) ==
    LET id == awaited(S)
    IN  drain(IF S.ops[id].outcome[1] = "rejected" /\ S.ops[id].batch # 0
              THEN [S EXCEPT !.queue =
                       SelectSeq(@, LAMBDA q : S.ops[q].batch # S.ops[id].batch)]
              ELSE S)

\* processQueue going on after line 69, the closure it awaited having
\* ended: back to the head of the loop (line 51), where it reads the clock
\* afresh.
resume(S) == drain(S)

\* getMetrics stamping lastRequestTime with the time of the read.
getMetricsStamping(S) ==
    LET recentRequests == recent(S.requestTimestamps, S.now)
    IN  [st |-> [S EXCEPT !.lastRequestTime = S.now],
         value |->
            [totalRequests |-> Len(S.requestTimestamps),
             requestsInLastHour |-> Len(recentRequests),
             averageRequestTime |->
                IF Len(S.requestTimes) > 0
                THEN quotient(sum(S.requestTimes), Len(S.requestTimes))
                ELSE quotient(0, 1),
             queueLength |-> Len(S.queue),
             lastRequestTime |-> S.lastRequestTime]]

\* getMetrics with the operation in flight counted in queueLength.
getMetricsCountingRunning(S) ==
    LET recentRequests == recent(S.requestTimestamps, S.now)
    IN  [st |-> S,
         value |->
            [totalRequests |-> Len(S.requestTimestamps),
             requestsInLastHour |-> Len(recentRequests),
             averageRequestTime |->
                IF Len(S.requestTimes) > 0
                THEN quotient(sum(S.requestTimes), Len(S.requestTimes))
                ELSE quotient(0, 1),
             queueLength |-> Len(S.queue) + (IF S.processing THEN 1 ELSE 0),
             lastRequestTime |-> S.lastRequestTime]]

\* getMetrics(): the value returned and the state left.  The method assigns
\* to no field.
getMetrics(S) ==
    LET recentRequests == recent(S.requestTimestamps, S.now)
    IN  [st |-> S,
         value |->
            [totalRequests |-> Len(S.requestTimestamps),
             requestsInLastHour |-> Len(recentRequests),
             averageRequestTime |->
                IF Len(S.requestTimes) > 0
                THEN quotient(sum(S.requestTimes), Len(S.requestTimes))
                ELSE quotient(0, 1),
             queueLength |-> Len(S.queue),
             lastRequestTime |-> S.lastRequestTime]]

\* batch.map((item) => this.enqueue(() => fn(item))) over one chunk: the
\* state left and the closures pushed, by position in the chunk.
\* mapEnqueue walking the chunk from its last item to its first.
RECURSIVE mapEnqueueReversed(_, _, _, _, _)
mapEnqueueReversed(S, chunk, kind, fanout, b) ==
    IF chunk = <<>>
    THEN [st |-> S, ids |-> <<>>]
    ELSE LET r == mapEnqueueReversed(S, Tail(chunk), kind, fanout, b)
             id == Len(r.st.ops) + 1
         IN  [st |-> enqueue(r.st, kind, fanout, 0, b, Head(chunk)),
              ids |-> <<id>> \o r.ids]

RECURSIVE mapEnqueue(_, _, _, _, _)
mapEnqueue(S, chunk, kind, fanout, b) ==
    IF chunk = <<>>
    THEN [st |-> S, ids |-> <<>>]
    ELSE LET id == Len(S.ops) + 1
             r == mapEnqueue(enqueue(S, kind, fanout, 0, b, Head(chunk)),
                             Tail(chunk), kind, fanout, b)
         IN  [st |-> r.st, ids |-> <<id>> \o r.ids]

\* The for loop of batch, lines 83-90, over the chunks left.
RECURSIVE submitChunks(_, _, _, _, _)
submitChunks(S, chunks, kind, fanout, b) ==
    IF chunks = <<>>
    THEN [st |-> S, groups |-> <<>>]
    ELSE LET r == mapEnqueue(S, Head(chunks), kind, fanout, b)
             rr == submitChunks(r.st, Tail(chunks), kind, fanout, b)
         IN  [st |-> rr.st, groups |-> <<r.ids>> \o rr.groups]

\* batch(items, batchSize, fn) up to its await at line 92, where it
\* suspends whatever the items: the promise it returns is pending.
batch(S, items, batchSize, kind, fanout) ==
    LET b == Len(S.batches) + 1
        r == submitChunks(S, chunksFrom(items, 0, batchSize), kind, fanout, b)
    IN  [r.st EXCEPT !.batches =
            Append(@, [items |-> items, batchSize |-> batchSize,
                       groups |-> r.groups,
                       promise |-> Pending])]

(* ---------------------------------------------------------------------- *)
(* The state machine                                                      *)
(* ---------------------------------------------------------------------- *)

\* Clock advances: half the minimum interval, the whole milliseconds next
\* below and next above the minimum interval, and a whole hour.
TickSteps ==
    {ceiling(minDelayMs) \div 2, floor(minDelayMs), ceiling(minDelayMs), HourMs}

\* The items of a batch call of k items.
ItemsOf(k) == [i \in 1..k |-> i]

\* The governor at rest with w calls behind it: the calls are recorded by
\* the time they were submitted (the construction time), with the time from
\* then to their return as duration.
InitAfter(w) ==
    /\ warm = w
    /\ now = WarmStart(w)
    /\ queue = <<>>
    /\ processing = FALSE
    /\ lastRequestTime = (IF w = 0 THEN 0 ELSE WarmStart(w))
    /\ requestTimes = [i \in 1..w |-> WarmStart(i) - ConstructionTime]
    /\ requestTimestamps = [i \in 1..w |-> ConstructionTime]
    /\ pc = "idle"
    /\ timerAt = quotient(0, 1)
    /\ current = 0
    /\ ops = <<>>
    /\ batches = <<>>
    /\ startLog = <<>>
    /\ decision = NoDecision
    /\ failures = 0
    /\ ticks = 0
    /\ loops = 0
    /\ reads = <<>>
    /\ direct = {}

\* The governor as constructed.
Init == InitAfter(0)

\* The governor as constructed, or with calls behind it.
WarmInit == \E w \in WarmCalls : InitAfter(w)

\* A caller submits one remote call (enqueue(() => client.xxx())), as long
\* as fewer than m were submitted.
SubmitUpTo(m) ==
    /\ Len(ops) < m
    /\ Len(queue) < MaxQueue
    /\ \E T \in {enqueue(Cur, "leaf", 0, 0, 0, 0)} : Becomes(T)
    /\ UNCHANGED <<failures, ticks, reads>>

Submit == SubmitUpTo(MaxOps)
SubmitFew == SubmitUpTo(MaxBatchOps)
SubmitFirst == SubmitUpTo(1)

\* A caller calls batch with one remote call per item (listIssues), as
\* long as no more than m operations are submitted with them.
BatchUpTo(m) ==
    \E k \in 0..MaxItems, w \in 1..MaxGroup :
        /\ Len(batches) < MaxBatches
        /\ Len(ops) + k <= m
        /\ \E T \in {batch(Cur, ItemsOf(k), w, "leaf", 0)} : Becomes(T)
        /\ UNCHANGED <<failures, ticks, reads>>

Batch == BatchUpTo(MaxBatchOps)
BatchPaced == BatchUpTo(MaxPacedOps)

\* A caller calls batch with a per-item operation that submits nested calls
\* (searchIssues, getUserIssues, getTeamIssues).
BatchFanOut ==
    \E k \in 1..MaxItems, w \in 1..MaxGroup, n \in 1..MaxNested :
        /\ Len(batches) < MaxBatches
        /\ Len(ops) + k * (1 + n) <= MaxBatchOps
        /\ \E T \in {batch(Cur, ItemsOf(k), w, "outer", n)} : Becomes(T)
        /\ UNCHANGED <<failures, ticks, reads>>

\* The timer of line 63 fires: at the first whole millisecond at or after
\* its due time, up to TimerEarlyMs before that by Date.now(), or later
\* (after a Tick); the loop goes on at line 66 without looking at the clock
\* or the history again.
TimerFire ==
    /\ pc = "timer"
    /\ \E early \in 0..TimerEarlyMs :
          \E T \in {dispatch([Cur EXCEPT
                                 !.now = Max(now, ceiling(timerAt) - early)])} :
              Becomes(T)
    /\ UNCHANGED <<failures, ticks, reads>>

\* processQueue goes on after the closure it awaited has ended.
Resume ==
    /\ pc = "resume"
    /\ \E T \in {resume(Cur)} : Becomes(T)
    /\ UNCHANGED <<failures, ticks, reads>>

\* A call of batch goes on after its await: Promise.all(batches) has
\* settled (at once when there are no items), and the promise the call
\* returned settles.
BatchReturns ==
    \E b \in DOMAIN batches :
        /\ batches[b].promise = Pending
        /\ batchPromise(Cur, batches[b].groups) # Pending
        /\ \E T \in {batchReturns(Cur, b)} : Becomes(T)
        /\ UNCHANGED <<failures, ticks, reads>>

\* A call of getIssue goes on after its await of enqueue, the promise
\* having settled.
GetIssueContinues ==
    \E id \in DOMAIN ops :
        /\ ops[id].kind = "getIssue"
        /\ ~ops[id].continued
        /\ callerPromise(Cur, id) # Pending
        /\ \E T \in {getIssueContinues(Cur, id)} : Becomes(T)
        /\ UNCHANGED <<failures, ticks, reads>>

\* The awaited operation returns.
Succeed ==
    /\ pc = "fn"
    /\ \E res \in fnOutcomes(Cur, current) :
        /\ res[1] = "resolved"
        /\ \E T \in {settle(Cur, res)} : Becomes(T)
    /\ UNCHANGED <<failures, ticks, reads>>

\* The awaited operation throws.
Fail ==
    /\ pc = "fn"
    /\ failures < MaxFailures
    /\ \E res \in fnOutcomes(Cur, current) :
        /\ res[1] = "rejected"
        /\ \E T \in {settle(Cur, res)} : Becomes(T)
    /\ failures' = failures + 1
    /\ UNCHANGED <<ticks, reads>>

\* The awaited operation is a per-item operation of a batch and throws.
FailItem ==
    /\ pc = "fn"
    /\ ops[current].batch # 0
    /\ failures < MaxItemFailures
    /\ \E res \in fnOutcomes(Cur, current) :
        /\ res[1] = "rejected"
        /\ \E T \in {settle(Cur, res)} : Becomes(T)
    /\ failures' = failures + 1
    /\ UNCHANGED <<ticks, reads>>

\* Time passes, between two callbacks.
Tick ==
    \E d \in TickSteps :
        /\ ticks < MaxTicks
        /\ now' = now + d
        /\ ticks' = ticks + 1
        /\ UNCHANGED <<warm, queue, processing, lastRequestTime, requestTimes,
                       requestTimestamps, pc, timerAt, current, ops, batches,
                       startLog, decision, failures, loops, reads, direct>>

\* The clock advances of MetricsSpec: the minimum interval and a whole hour.
ElapseSteps == {ceiling(minDelayMs), HourMs}

\* The methods of LinearMCPClient that call the remote service themselves:
\* createIssue, updateIssue, addComment, getViewer, getOrganization and
\* getLabels await this.client.xxx(...) without enqueue.
DirectMethods ==
    {"createIssue", "updateIssue", "addComment", "getViewer",
     "getOrganization", "getLabels"}

\* Math.round(a / b) for the fraction <<a, b>>, a >= 0: halves go up.
round(q) == (2 * q[1] + q[2]) \div (2 * q[2])

\* addMetricsToResponse (part_002, lines 36-52): the apiMetrics it attaches
\* to a response, from the metrics getMetrics returned.  The template string
\* is the rounded number with its unit, the date is kept as the instant
\* new Date(...) was built from.
addMetricsToResponse(metrics) ==
    [requestsInLastHour |-> metrics.requestsInLastHour,
     remainingRequests |-> requestsPerHour - metrics.requestsInLastHour,
     averageRequestTime |-> <<round(metrics.averageRequestTime), "ms">>,
     queueLength |-> metrics.queueLength,
     lastRequestTime |-> <<"Date", metrics.lastRequestTime>>]

\* What a call of getMetrics is remembered by: the value it returned, the
\* apiMetrics made of it, the clock, and what had happened by then:
\* operations submitted, started and settled, the operation running, starts
\* within the trailing hour, the time of the last start (0: none yet), and
\* the number and mean duration of the calls the governor counts in that
\* hour.  The calls the governor had behind it at the start are included.
Reading(S, v) ==
    LET done == SelectSeq([i \in DOMAIN S.ops |-> i],
                          LAMBDA i : S.ops[i].outcome # Pending)
        counted == SelectSeq(done,
                             LAMBDA i : /\ S.ops[i].outcome[1] = "resolved"
                                        /\ S.ops[i].startTime > S.now - HourMs)
        durations == [k \in DOMAIN counted |->
                         S.ops[counted[k]].endTime - S.ops[counted[k]].startTime]
        before == IF ConstructionTime > S.now - HourMs THEN S.warm ELSE 0
        earlier == [i \in 1..before |-> WarmStart(i) - ConstructionTime]
    IN  [returned |-> v, apiMetrics |-> addMetricsToResponse(v),
         at |-> S.now,
         submitted |-> S.warm + Len(S.ops),
         started |-> S.warm + Len(S.startLog),
         settled |-> S.warm + Len(done), running |-> S.current,
         starts |-> warmStarts(S.warm, S.now)
                        + startsInLastHour(S.startLog, S.now),
         lastStart |-> IF S.startLog # <<>>
                       THEN S.startLog[Len(S.startLog)].at
                       ELSE IF S.warm > 0 THEN WarmStart(S.warm) ELSE 0,
         counted |-> before + Len(counted),
         mean |-> IF before + Len(counted) > 0
                  THEN quotient(sum(earlier) + sum(durations),
                                before + Len(counted))
                  ELSE quotient(0, 1)]

\* getIssue submits its remote call (part_002, lines 91-95).
GetIssue ==
    /\ Len(ops) < MaxClientOps
    /\ \E T \in {enqueue(Cur, "getIssue", 0, 0, 0, 0)} : Becomes(T)
    /\ UNCHANGED <<failures, ticks, reads>>

\* One of the direct methods is called: its remote call starts at once, in
\* the caller's turn; the governor is not involved.
DirectCall ==
    \E m \in DirectMethods :
        /\ Cardinality(direct \cap DirectMethods) < MaxDirect
        /\ direct' = direct \cup {m}
        /\ UNCHANGED <<now, warm, queue, processing, lastRequestTime, requestTimes,
                       requestTimestamps, pc, timerAt, current, ops, batches,
                       startLog, decision, failures, ticks, loops, reads>>

\* A client method ends with addMetricsToResponse, which calls getMetrics.
GetMetrics ==
    /\ Len(reads) < MaxReads
    /\ \E r \in {getMetrics(Cur)} :
          /\ Becomes(r.st)
          /\ reads' = Append(reads, Reading(Cur, r.value))
    /\ UNCHANGED <<failures, ticks>>

\* Time passes, between two callbacks.
Elapse ==
    \E d \in ElapseSteps :
        /\ ticks < MaxElapse
        /\ now' = now + d
        /\ ticks' = ticks + 1
        /\ UNCHANGED <<warm, queue, processing, lastRequestTime, requestTimes,
                       requestTimestamps, pc, timerAt, current, ops, batches,
                       startLog, decision, failures, loops, reads, direct>>

\* The governor under plain submissions, fresh or with enough calls behind
\* it for the submissions to reach the 90% threshold and the quota.
Next ==
    \/ Submit
    \/ TimerFire
    \/ Succeed
    \/ Resume
    \/ Fail
    \/ Tick

Spec == WarmInit /\ [][Next]_vars

\* The same governor with every started remote call settling, every armed
\* timer firing and every reaction that is due running.
FairSpec ==
    /\ Spec
    /\ WF_vars(TimerFire)
    /\ WF_vars(Succeed \/ Fail)
    /\ WF_vars(Resume)

\* The governor under batch calls and fan-out operations.  With at most
\* MaxBatchOps operations the history stays below the 90% threshold, so the
\* loop never arms its timer here; the order of submissions, starts,
\* settlements and reactions is all that matters, and the clock stands
\* still.
BatchNext ==
    \/ SubmitFew
    \/ Batch
    \/ BatchFanOut
    \/ Succeed
    \/ Resume
    \/ BatchReturns
    \/ Fail

BatchSpec == Init /\ [][BatchNext]_vars

\* The governor under batch calls whose per-item operations may fail, more
\* than one of them in a batch.
BatchFailNext ==
    \/ SubmitFew
    \/ Batch
    \/ Succeed
    \/ Resume
    \/ BatchReturns
    \/ FailItem

BatchFailSpec == Init /\ [][BatchFailNext]_vars

\* The governor, fresh or with calls behind it, under a batch call with a
\* plain submission before it: the items of the batch meet the 90% rule,
\* the loop arms its timer for them, and the clock moves.
PacedBatchNext ==
    \/ SubmitFirst
    \/ BatchPaced
    \/ TimerFire
    \/ Succeed
    \/ Resume
    \/ BatchReturns
    \/ Tick

PacedBatchSpec == WarmInit /\ [][PacedBatchNext]_vars

\* The governor, fresh or with calls behind it, under submissions that pass
\* the quota, with the metrics the client attaches to its responses; every
\* operation succeeds and the clock moves only with the loop's timer.
QuotaNext ==
    \/ Submit
    \/ TimerFire
    \/ Succeed
    \/ Resume
    \/ GetMetrics

QuotaSpec == WarmInit /\ [][QuotaNext]_vars

\* The governor's metrics: getIssue calls, the metrics the client reads
\* when a method ends, and the clock.  With at most MaxClientOps operations
\* the loop never arms its timer here.
MetricsNext ==
    \/ GetIssue
    \/ GetMetrics
    \/ Succeed
    \/ Resume
    \/ GetIssueContinues
    \/ Fail
    \/ Elapse

MetricsSpec == Init /\ [][MetricsNext]_vars

\* The client's remote calls: those it submits to the governor and those
\* its direct methods make themselves; the clock stands still.
ClientNext ==
    \/ GetIssue
    \/ DirectCall
    \/ GetMetrics
    \/ Succeed
    \/ Resume
    \/ GetIssueContinues
    \/ Fail

ClientSpec == Init /\ [][ClientNext]_vars

(* ---------------------------------------------------------------------- *)
(* Properties                                                             *)
(* ---------------------------------------------------------------------- *)

Settled(i) == ops[i].promise # Pending
Started(i) == \E k \in DOMAIN startLog : startLog[k].id = i
TimesStarted(i) == Cardinality({k \in DOMAIN startLog : startLog[k].id = i})

\* C1: the promise enqueue returned settles exactly once and with exactly
\* what the operation itself did: it is pending while the operation has not
\* settled, resolved with the value the operation returned or rejected with
\* the error the operation threw (never another operation's), and the
\* operation is started at most once.
OwnOutcome ==
    \A i \in DOMAIN ops :
        /\ ops[i].promise = ops[i].outcome
        /\ ops[i].settles = (IF ops[i].outcome = Pending THEN 0 ELSE 1)
        /\ ops[i].outcome # Pending =>
               \/ ops[i].outcome \in {<<"resolved", fnValue(i, ops[i])>>,
                                      <<"rejected", fnError(i, ops[i])>>}
               \/ /\ ops[i].kind = "getIssue"
                  /\ ops[i].outcome = <<"resolved", Null>>
        /\ TimesStarted(i) <= 1

\* An operation has failed and another has succeeded.
OwnOutcomeWitness ==
    \E i, j \in DOMAIN ops :
        /\ ops[i].promise = <<"rejected", fnError(i, ops[i])>>
        /\ ops[j].promise = <<"resolved", fnValue(j, ops[j])>>

\* C2: operations are started in submission order: the k-th closure the
\* drain loop starts is the k-th closure submitted, whatever completions,
\* submissions and throttling waits come in between.
FifoStart ==
    \A k \in DOMAIN startLog : startLog[k].id = k

\* The loop started an operation after a throttling wait during which a
\* later submission stood in the queue behind it.
FifoStartWitness ==
    /\ Len(startLog) >= 2
    /\ startLog[Len(startLog)].decided.waited
    /\ pc = "fn"
    /\ Len(queue) >= 1

\* C3: with every started call settling and every timer firing (FairSpec),
\* each submitted operation is eventually started and its promise settles;
\* none stays in the queue for ever.
\* (Submissions are finitely many in a run, so this is: time and again every
\* operation submitted so far has been started and has settled.)
EventuallySettled ==
    []<>(\A i \in DOMAIN ops : Started(i) /\ Settled(i))

\* An operation that had to sit out a throttling wait has settled.
EventuallySettledWitness ==
    \E k \in DOMAIN startLog :
        /\ startLog[k].decided.waited
        /\ Settled(startLog[k].id)

\* C4: the drain loop starts at most requestsPerHour operations in any
\* trailing hour.
QuotaRespected ==
    warmStarts(warm, now) + startsInLastHour(startLog, now) <= requestsPerHour

\* lastRequestTime when the k-th start was decided: the start before it.
PreviousStart(k) ==
    IF k > 1 THEN startLog[k - 1].at
    ELSE IF warm > 0 THEN WarmStart(warm) ELSE 0

\* C5: when the loop finds the recorded calls of the trailing hour at 90% of
\* the quota or more and less than minDelayMs gone since the previous start,
\* it starts the next operation no earlier than minDelayMs after that start.
PacingBackstop ==
    /\ \A k \in DOMAIN startLog :
          LET e == startLog[k]
          IN  (e.decided.n * 10 >= requestsPerHour * 9
                  /\ lessThan(e.decided.since, minDelayMs))
              => ~lessThan(e.at - PreviousStart(k), minDelayMs)
    /\ pc = "timer" => timerAt = plus(lastRequestTime, minDelayMs)

\* C6: when the loop looks at the head of the queue with the calls of the
\* trailing hour below 90% of the quota, or with minDelayMs or more gone
\* since the last start, it starts the head in that same turn and arms no
\* timer.  The count the loop uses never exceeds the number of operations
\* really started in the trailing hour, so this covers both counts.
NoThrottleBelow ==
    /\ decision.n <= decision.starts
    /\ decision.waited =>
          /\ decision.n * 10 >= requestsPerHour * 9
          /\ lessThan(decision.since, minDelayMs)
    /\ pc = "timer" => decision.waited
    /\ \A k \in DOMAIN startLog :
          LET e == startLog[k]
          IN  (e.decided.n * 10 < requestsPerHour * 9
                  \/ ~lessThan(e.decided.since, minDelayMs))
              => /\ ~e.decided.waited
                 /\ e.at = e.decided.at
                 /\ e.id = e.decided.head

\* An operation was started at once although 90% of the quota was recorded,
\* because minDelayMs had gone by; and one because the count was below 90%
\* although it came right after the previous start.
NoThrottleBelowWitness ==
    /\ \E k \in DOMAIN startLog :
          /\ startLog[k].decided.n * 10 >= requestsPerHour * 9
          /\ ~lessThan(startLog[k].decided.since, minDelayMs)
          /\ startLog[k].at = startLog[k].decided.at
    /\ \E k \in DOMAIN startLog :
          /\ startLog[k].decided.n * 10 < requestsPerHour * 9
          /\ lessThan(startLog[k].decided.since, minDelayMs)
          /\ startLog[k].at = startLog[k].decided.at

\* C7: a failure reaches only the promise of the operation that failed; the
\* loop keeps running while operations are queued, the others settle with
\* their own outcome, and once all have settled and the loop has gone on
\* after the last of them (its next reaction) the queue is empty and the
\* processing flag is cleared.
FailureIsolation ==
    /\ \A i \in DOMAIN ops :
          /\ ops[i].promise[1] = "rejected" =>
                /\ ops[i].outcome[1] = "rejected"
                /\ ops[i].promise[2] = fnError(i, ops[i])
          /\ ops[i].outcome[1] = "resolved" =>
                ops[i].promise = <<"resolved", fnValue(i, ops[i])>>
    /\ processing = (pc # "idle")
    /\ queue # <<>> => pc \in {"timer", "fn", "resume"}
    /\ (pc # "resume" /\ \A i \in DOMAIN ops : Settled(i))
          => queue = <<>> /\ ~processing

\* Of three operations the second failed, the first and the third returned,
\* and the governor is at rest.
FailureIsolationWitness ==
    /\ Len(ops) = 3
    /\ ops[1].promise = <<"resolved", fnValue(1, ops[1])>>
    /\ ops[2].promise = <<"rejected", fnError(2, ops[2])>>
    /\ ops[3].promise = <<"resolved", fnValue(3, ops[3])>>
    /\ ops[3].startTime < startLog[2].at + 1
    /\ queue = <<>>
    /\ ~processing

\* The closures batch call b pushed, and those of them not yet settled.
ItemOps(b) == {i \in DOMAIN ops : ops[i].batch = b}
Outstanding(b) == {i \in ItemOps(b) : ops[i].promise = Pending}

\* What batch call b owes its caller: operation(items[i]) at position i.
Expected(b) ==
    [i \in 1..Len(batches[b].items) |-> <<"f", batches[b].items[i]>>]

\* C8: when every per-item operation of a batch call has succeeded and its
\* promise has reached the batch call, the batch promise is resolved with
\* an array as long as items whose i-th element is the result of
\* operation(items[i]), or it is still pending and the reaction of the
\* batch call that is due resolves it with that array; this for every group
\* width.  It is never resolved with anything else, nor before every item
\* has succeeded, and it is not rejected when none has failed.
BatchOrder ==
    \A b \in DOMAIN batches :
        /\ (\A i \in ItemOps(b) : callerPromise(Cur, i)[1] = "resolved")
              => \/ batches[b].promise = <<"resolved", Expected(b)>>
                 \/ /\ batches[b].promise = Pending
                    /\ batchReturns(Cur, b).batches[b].promise
                           = <<"resolved", Expected(b)>>
        /\ batches[b].promise[1] = "resolved"
              => /\ batches[b].promise[2] = Expected(b)
                 /\ \A i \in ItemOps(b) : ops[i].outcome[1] = "resolved"
        /\ batches[b].promise[1] = "rejected"
              => \E i \in ItemOps(b) : ops[i].outcome[1] = "rejected"

\* A batch of three items in groups of two has resolved, with a plain
\* submission in the queue ahead of its items.
BatchOrderWitness ==
    \E b \in DOMAIN batches :
        /\ Len(batches[b].items) = 3
        /\ batches[b].batchSize = 2
        /\ batches[b].promise = <<"resolved", Expected(b)>>
        /\ \A i \in ItemOps(b) : i > 1

\* C9: at most batchSize operations of one batch call are submitted and not
\* yet settled at any moment.
BatchGating ==
    \A b \in DOMAIN batches :
        Cardinality(Outstanding(b)) <= batches[b].batchSize

\* C10: the drain loop never awaits an operation that itself awaits an
\* operation still in the queue.
NoNestedDeadlock ==
    ~(/\ pc = "fn"
      /\ \E k \in DOMAIN queue :
            /\ ops[queue[k]].parent = current
            /\ ops[queue[k]].promise = Pending)

\* The fraction that stands for the number 0.
Zero == quotient(0, 1)

\* C11: getMetrics reports as averageRequestTime the arithmetic mean of the
\* durations of exactly the calls it counts in requestsInLastHour, and 0 when
\* it counts none; so a reading taken more than an hour after the last
\* activity has requestsInLastHour = 0 and averageRequestTime = 0.
MetricsWindow ==
    \A k \in DOMAIN reads :
        LET r == reads[k]
        IN  /\ r.returned.requestsInLastHour = r.counted
            /\ r.returned.averageRequestTime = r.mean
            /\ r.returned.requestsInLastHour = 0
                  => r.returned.averageRequestTime = Zero

\* C12: the utilization the drain loop compares with the 90% threshold, and
\* requestsInLastHour as getMetrics returns it, both equal the number of
\* operations the drain loop started within the trailing hour: an operation
\* counts from the time it was started, whether it succeeds or fails.
UtilizationCountsStarts ==
    /\ decision.n = decision.starts
    /\ \A k \in DOMAIN reads :
          reads[k].returned.requestsInLastHour = reads[k].starts

\* C13: lastRequestTime as getMetrics returns it is the time at which the
\* drain loop last took an operation from the queue and started it, and the
\* time the governor was constructed while it has started none.
LastStartReported ==
    \A k \in DOMAIN reads :
        LET r == reads[k]
        IN  r.returned.lastRequestTime =
                (IF r.started = 0 THEN ConstructionTime ELSE r.lastStart)

\* C14: queueLength as getMetrics returns it is the number of operations
\* submitted minus the number the drain loop has started, in every state; the
\* operation that is running is not counted.
QueueLengthReported ==
    /\ getMetrics(Cur).value.queueLength = Len(ops) - Len(startLog)
    /\ \A k \in DOMAIN reads :
          reads[k].returned.queueLength = reads[k].submitted - reads[k].started

\* getMetrics was called while one operation was running and another waited
\* in the queue.
QueueLengthReportedWitness ==
    \E k \in DOMAIN reads :
        /\ reads[k].running # 0
        /\ reads[k].returned.queueLength = 1
        /\ reads[k].submitted = 2

\* Two readings with no submission, start, completion or clock advance in
\* between.
SameMoment(r1, r2) ==
    /\ r1.at = r2.at
    /\ r1.submitted = r2.submitted
    /\ r1.started = r2.started
    /\ r1.settled = r2.settled

\* C15: getMetrics is a read.  A call leaves the queue, the processing flag
\* and lastRequestTime as they were, starts no operation and arms no timer,
\* and a second call right after it would return the same value in every
\* field; two readings with nothing in between are equal.
MetricsIsRead ==
    /\ [](\A i, j \in DOMAIN reads :
            SameMoment(reads[i], reads[j])
                => reads[i].returned = reads[j].returned)
    /\ [][reads' # reads =>
            /\ UNCHANGED <<queue, processing, lastRequestTime, pc, timerAt,
                           current, startLog, ops, loops>>
            /\ getMetrics(Cur)'.value = getMetrics(Cur).value]_vars

\* getMetrics was called twice in a row while an operation was running,
\* after another had succeeded.
MetricsIsReadWitness ==
    /\ Len(reads) = 2
    /\ SameMoment(reads[1], reads[2])
    /\ reads[1].running # 0
    /\ reads[1].returned.totalRequests > 0

\* C16: at most one drain loop runs at any time.  A submission made while a
\* loop is active, be it suspended in a throttling wait or awaiting its
\* operation, only appends to the queue: it starts no loop and no operation,
\* and leaves the running loop where it is.
SingleDrainLoop ==
    /\ [](loops <= 1 /\ processing = (loops = 1))
    /\ [][(processing /\ Len(ops') > Len(ops)) =>
            /\ queue' = Append(queue, Len(ops'))
            /\ UNCHANGED <<processing, loops, pc, timerAt, current, startLog,
                           lastRequestTime>>]_vars

\* An operation submitted while the loop sat out a throttling wait stands
\* in the queue behind the operation the loop started after that wait.
SingleDrainLoopWitness ==
    /\ pc = "fn"
    /\ loops = 1
    /\ Len(queue) = 1
    /\ decision.waited
    /\ decision.head = current
    /\ ops[queue[1]].startTime > decision.at
    /\ ops[queue[1]].startTime < lastRequestTime

\* C17: every remote call of the client starts inside an operation the
\* drain loop started; the client starts none itself.
EveryCallGoverned ==
    direct = {}

\* C18: each submitted operation is invoked at most once.  The loop takes a
\* closure off the queue before it invokes it and never puts one back: no
\* closure is in the queue twice, none that was started is in the queue, none
\* was started twice, and starts never outnumber submissions.
InvokedAtMostOnce ==
    /\ \A i \in DOMAIN ops :
          Cardinality({k \in DOMAIN startLog : startLog[k].id = i})
              + Cardinality({k \in DOMAIN queue : queue[k] = i}) <= 1
    /\ \A k \in DOMAIN startLog : startLog[k].id \in DOMAIN ops
    /\ Len(startLog) <= Len(ops)

\* Three or more operations were submitted, one of them failed, and all
\* have been started and the loop has ended.
InvokedAtMostOnceWitness ==
    /\ Len(ops) >= 3
    /\ failures = 1
    /\ Len(startLog) = Len(ops)
    /\ \A i \in DOMAIN ops : Settled(i)
    /\ pc = "idle"

\* The operations the drain loop started that have not settled.
Running == {i \in DOMAIN ops : Started(i) /\ ops[i].outcome = Pending}

\* C19: governed operations run one at a time.  At most one started
\* operation is unsettled, it is the one the loop awaits, and the loop
\* started each operation only after the one started before it had settled.
OneAtATime ==
    /\ Cardinality(Running) <= 1
    /\ \A i \in Running : pc = "fn" /\ current = i
    /\ \A k \in DOMAIN startLog :
          k > 1 => /\ ops[startLog[k - 1].id].outcome # Pending
                   /\ ops[startLog[k - 1].id].endTime <= startLog[k].at

\* An operation runs after the one before it failed, with another waiting
\* in the queue behind it.
OneAtATimeWitness ==
    /\ Len(startLog) >= 2
    /\ ops[startLog[Len(startLog) - 1].id].outcome[1] = "rejected"
    /\ Running = {current}
    /\ Len(queue) >= 1

\* C20: no wake-up is lost.  Whenever control is back with the event loop a
\* non-empty queue has the processing flag set; the loop clears the flag
\* only with the queue empty; and a submission that finds the flag cleared
\* starts a loop that takes it up: the flag is set again and the operation
\* is running or is the head the loop waits to start.
NoLostWakeup ==
    /\ [](queue # <<>> => processing)
    /\ [][(processing /\ ~processing') => queue' = <<>>]_vars
    /\ [][(~processing /\ Len(ops') > Len(ops)) =>
            /\ processing'
            /\ \/ pc' = "fn" /\ current' = Len(ops')
               \/ pc' = "timer" /\ Head(queue') = Len(ops')]_vars

\* A loop has ended and cleared the flag, and an operation submitted later
\* runs in a new loop.
NoLostWakeupWitness ==
    /\ Len(startLog) >= 2
    /\ pc = "fn"
    /\ processing
    /\ ops[current].startTime > ops[startLog[Len(startLog) - 1].id].endTime

\* C21: after every tracked completion the duration log and the timestamp
\* log have the same length, also when the pruning evicts every timestamp.
\* (Only trackRequest assigns to the logs, so this is: in every state.)
HistoryLengths ==
    Len(requestTimes) = Len(requestTimestamps)

\* C22: neither log keeps an entry older than one hour after a tracked
\* completion or a call of getMetrics, so that totalRequests equals
\* requestsInLastHour in every value getMetrics returns.
HistoryPruned ==
    \A k \in DOMAIN reads :
        reads[k].returned.totalRequests = reads[k].returned.requestsInLastHour

\* C23: an operation submitted while the loop sits out its pacing delay goes
\* to the tail of the queue and changes neither the timer nor the loop's
\* position; the timer stays set for the time it was set for when the wait
\* began, the wait ends when the timer fires, and the operation started then
\* is the one that was at the head of the queue when the wait began.
WaitUndisturbed ==
    /\ [](pc = "timer" =>
            /\ queue # <<>>
            /\ Head(queue) = decision.head
            /\ timerAt = plus(decision.at, minus(minDelayMs, decision.since)))
    /\ [][(pc = "timer" /\ Len(ops') > Len(ops)) =>
            /\ queue' = Append(queue, Len(ops'))
            /\ UNCHANGED <<pc, timerAt, decision, startLog, lastRequestTime,
                           current>>]_vars
    /\ [][(pc = "timer" /\ pc' # "timer") =>
            /\ pc' = "fn"
            /\ current' = decision.head
            /\ queue' = Tail(queue)
            /\ now' >= ceiling(timerAt) - TimerEarlyMs
            /\ lastRequestTime' = now']_vars

\* The loop has started, at the time its timer was set for, the operation
\* that headed the queue when the wait began, and an operation submitted
\* during the wait is the next in the queue.
WaitUndisturbedWitness ==
    /\ pc = "fn"
    /\ decision.waited
    /\ current = decision.head
    /\ lastRequestTime =
           ceiling(plus(decision.at, minus(minDelayMs, decision.since)))
    /\ queue # <<>>
    /\ ops[Head(queue)].startTime > decision.at
    /\ ops[Head(queue)].startTime < lastRequestTime
    /\ Len(startLog) = Len(ops) - 1

\* submit(operation(item)) called once per item, in item order.
RECURSIVE submitEach(_, _, _, _, _)
submitEach(S, items, kind, fanout, b) ==
    IF items = <<>>
    THEN S
    ELSE submitEach(enqueue(S, kind, fanout, 0, b, Head(items)),
                    Tail(items), kind, fanout, b)

\* C24: batch is a composition of submit.  Every call of batch, whatever
\* the group width, leaves the governor (queue, loop position, pacing
\* decision, timer, last start, history, operations, starts so far) exactly
\* as one submit per item in item order leaves it, so that the starts and
\* the pacing delays that follow are the same; every batch call has pushed
\* exactly one operation per item, in item order, all in the callback of
\* the call; and the reaction in which the batch call returns touches
\* nothing but its own promise.
BatchIsComposition ==
    /\ [][Len(batches') > Len(batches) =>
            LET b == Len(batches')
                items == batches'[b].items
                ids == flat(batches'[b].groups)
                viaSubmit ==
                    IF items = <<>>
                    THEN Cur
                    ELSE submitEach(Cur, items, ops'[ids[1]].kind,
                                    ops'[ids[1]].fanout, b)
            IN  [Cur' EXCEPT !.batches = batches] = viaSubmit]_vars
    /\ [][(\E b \in DOMAIN batches : batches'[b].promise # batches[b].promise)
            => [Cur' EXCEPT !.batches = batches] = Cur]_vars
    /\ [](\A b \in DOMAIN batches :
            LET ids == flat(batches[b].groups)
                items == batches[b].items
            IN  /\ Len(ids) = Len(items)
                /\ ItemOps(b) = {ids[i] : i \in DOMAIN ids}
                /\ \A i \in DOMAIN ids :
                      /\ ops[ids[i]].item = items[i]
                      /\ ops[ids[i]].startTime = ops[ids[1]].startTime
                      /\ i > 1 => ids[i] > ids[i - 1])

\* A batch of three items or more in groups of two was called while another
\* operation was running; the loop has started its first item after a
\* pacing delay and sits out the next delay for its second, the others
\* behind it in item order.
BatchIsCompositionWitness ==
    \E b \in DOMAIN batches :
        LET ids == flat(batches[b].groups)
        IN  /\ Len(batches[b].items) >= 3
            /\ batches[b].batchSize = 2
            /\ ids[1] > 1
            /\ ops[1].startTime < ops[ids[1]].startTime
            /\ \E k \in DOMAIN startLog :
                  startLog[k].id = ids[1] /\ startLog[k].decided.waited
            /\ pc = "timer"
            /\ queue = SubSeq(ids, 2, Len(ids))

\* The positions of the items of batch call b whose operation failed.
FailedItems(b) ==
    {i \in DOMAIN batches[b].items :
        ops[flat(batches[b].groups)[i]].outcome[1] = "rejected"}

\* C25: when a per-item operation of a batch has failed and its promise
\* has reached the batch call, the batch promise is rejected with the error
\* of the failed item of lowest index, or it is still pending and the
\* reaction of the batch call that is due rejects it with that error; it is
\* never rejected with anything else and never resolved once an item has
\* failed.  No item is withdrawn: each is in the queue until the loop
\* starts it, whatever has become of the batch promise, and when the loop
\* has ended every item has settled.
BatchFailure ==
    \A b \in DOMAIN batches :
        LET ids == flat(batches[b].groups)
            failed == FailedItems(b)
            first == CHOOSE i \in failed : \A j \in failed : i <= j
            error == <<"rejected", fnError(ids[first], ops[ids[first]])>>
        IN  /\ (\E i \in failed : callerPromise(Cur, ids[i])[1] = "rejected") =>
                  \/ batches[b].promise = error
                  \/ /\ batches[b].promise = Pending
                     /\ batchReturns(Cur, b).batches[b].promise = error
            /\ batches[b].promise[1] = "rejected" =>
                  failed # {} /\ batches[b].promise = error
            /\ batches[b].promise[1] = "resolved" => failed = {}
            /\ \A i \in DOMAIN ids :
                  \/ Started(ids[i])
                  \/ \E q \in DOMAIN queue : queue[q] = ids[i]
            /\ pc = "idle" => \A i \in DOMAIN ids : ops[ids[i]].outcome # Pending

\* Two items of a batch have failed, the first item and the last have
\* succeeded, the loop has ended and the batch promise is rejected.
BatchFailureWitness ==
    \E b \in DOMAIN batches :
        /\ Cardinality(FailedItems(b)) = 2
        /\ 1 \notin FailedItems(b)
        /\ Len(batches[b].items) \notin FailedItems(b)
        /\ batches[b].batchSize = 2
        /\ pc = "idle"
        /\ batches[b].promise[1] = "rejected"

\* C26: the queue changes only by a submission appending its closure at the
\* tail and by the drain loop taking the closure at the head to start it: in
\* every step the old queue followed by the closures submitted equals the
\* closures started followed by the new queue.  A submission (a step in
\* which closures are pushed and no operation settles) leaves both history
\* logs as they were.
QueueDiscipline ==
    [][/\ LET pushed == [i \in 1..(Len(ops') - Len(ops)) |-> Len(ops) + i]
              taken == [i \in 1..(Len(startLog') - Len(startLog)) |->
                           startLog'[Len(startLog) + i].id]
          IN  queue \o pushed = taken \o queue'
       /\ (/\ Len(ops') > Len(ops)
           /\ \A i \in DOMAIN ops : ops'[i].outcome = ops[i].outcome) =>
             UNCHANGED <<requestTimes, requestTimestamps>>]_vars

\* With calls older than an hour in the history, two operations were
\* submitted behind a running one.
QueueDisciplineWitness ==
    /\ pc = "fn"
    /\ Len(queue) = 2
    /\ requestTimestamps # <<>>
    /\ recent(requestTimestamps, now) = <<>>
    /\ \A k \in DOMAIN queue : ops[queue[k]].startTime = now

\* The position in startLog of the operation that settled last (0: none).
LastSettled == IF pc = "fn" THEN Len(startLog) - 1 ELSE Len(startLog)

\* C27: the duration recorded for a completed call is the time from the
\* moment the drain loop started it to the moment it settled; the time it
\* waited in the queue or in a throttling delay is not part of it.
DurationFromStart ==
    (/\ LastSettled >= 1
     /\ ops[startLog[LastSettled].id].outcome[1] = "resolved"
     /\ requestTimes # <<>>)
    => requestTimes[Len(requestTimes)] =
           ops[startLog[LastSettled].id].endTime - startLog[LastSettled].at

\* C28: the remaining quota attached to a response, requestsPerHour minus
\* requestsInLastHour, is between 0 and requestsPerHour.
RemainingInRange ==
    \A k \in DOMAIN reads :
        /\ reads[k].apiMetrics.remainingRequests >= 0
        /\ reads[k].apiMetrics.remainingRequests <= requestsPerHour

\* ceil(n / d) for whole numbers n >= 0 and d >= 1.
Ceil(n, d) == (n + d - 1) \div d

\* C29: the partitioning of batch ends with ceil(len(items) / batchSize)
\* consecutive chunks of at most batchSize items each (only the last may be
\* shorter), which put one after the other are the items, each once; and a
\* batch of no items submits nothing and is resolved with the empty array:
\* its promise is pending from the call to the reaction in which the call
\* returns, which is due at once and resolves it with [].
\* (The partitioning depends on the items and the width alone: its table is
\* looked at before the first submission, the chunks of the calls made in
\* every state.)
BatchPartition ==
    /\ ops = <<>> =>
          \A k \in 0..MaxItems, w \in 1..MaxGroup :
              LET chunks == chunksFrom(ItemsOf(k), 0, w)
              IN  /\ Len(chunks) = Ceil(k, w)
                  /\ flat(chunks) = ItemsOf(k)
                  /\ \A c \in DOMAIN chunks :
                        /\ Len(chunks[c]) >= 1
                        /\ Len(chunks[c]) <= w
                        /\ c < Len(chunks) => Len(chunks[c]) = w
    /\ \A b \in DOMAIN batches :
          LET groups == batches[b].groups
              items == batches[b].items
          IN  /\ Len(groups) = Ceil(Len(items), batches[b].batchSize)
              /\ \A g \in DOMAIN groups :
                    Len(groups[g]) \in 1..batches[b].batchSize
              /\ [i \in DOMAIN flat(groups) |-> ops[flat(groups)[i]].item]
                     = items
              /\ items = <<>> =>
                    /\ ItemOps(b) = {}
                    /\ groups = <<>>
                    /\ \/ batches[b].promise = <<"resolved", <<>>>>
                       \/ /\ batches[b].promise = Pending
                          /\ batchReturns(Cur, b).batches[b].promise
                                 = <<"resolved", <<>>>>

\* A batch of five items in groups of two was called: three chunks, the
\* last of one item.
BatchPartitionWitness ==
    \E b \in DOMAIN batches :
        /\ Len(batches[b].items) = 5
        /\ batches[b].batchSize = 2
        /\ Len(batches[b].groups) = 3
        /\ Len(batches[b].groups[3]) = 1

\* The operations that succeeded, in the order they were submitted.
Succeeded ==
    SelectSeq([i \in DOMAIN ops |-> i], LAMBDA i : ops[i].outcome[1] = "resolved")

\* C30: the timestamp log is non-decreasing; the pruning removes a prefix of
\* it, so that it holds the timestamps of the last calls tracked; and the
\* duration log holds the durations recorded for exactly those calls.
HistoryAligned ==
    LET n == Len(requestTimestamps)
        kept == SubSeq(Succeeded, Len(Succeeded) - n + 1, Len(Succeeded))
    IN  /\ \A j \in 1..(n - 1) : requestTimestamps[j] <= requestTimestamps[j + 1]
        /\ n <= Len(Succeeded)
        /\ requestTimestamps = [j \in 1..n |-> ops[kept[j]].startTime]
        /\ requestTimes =
               [j \in 1..n |-> ops[kept[j]].endTime - ops[kept[j]].startTime]
====
